---- MODULE Spec2Model ----
(***************************************************************************)
(* Persona-aware response synthesis of the LLM chat backend:               *)
(*   bot_prompts.py    registry and prompt composition                     *)
(*   gemma_handler.py  GemmaHandler: engine lifecycle, generation, chat,   *)
(*                     template fallback                                   *)
(*   gemma_api.py      FastAPI application: lifespan and endpoints         *)
(* Texts are TLA+ strings; Python's str methods are operators over them.   *)
(* Temperatures and nucleus thresholds are integers in hundredths.         *)
(***************************************************************************)
EXTENDS Integers, Sequences, FiniteSets, TLC

VARIABLES
  app,        \* lifespan position of the FastAPI application
  handler,    \* the module global gemma_handler: "None" or "GemmaHandler"
  model,      \* self.model is not None
  tokenizer,  \* self.tokenizer is not None
  lastOp,     \* name of the operation that produced this state
  lastLoad,   \* outcome of the most recent load_model(): "none", "ok", "failed"
  req,        \* the arguments of that operation
  ret,        \* what it returned, and the calls it made on the way
  tasks       \* the requests the event loop holds, each with its position

vars == <<app, handler, model, tokenizer, lastOp, lastLoad, req, ret, tasks>>

(***************************************************************************)
(* Python str methods                                                      *)
(***************************************************************************)
UpperAlpha == "ABCDEFGHIJKLMNOPQRSTUVWXYZ"

LowerAlpha == "abcdefghijklmnopqrstuvwxyz"

CharAt(s, i) == SubSeq(s, i, i)

Letters == 1..26

\* upper-case letter -> lower-case letter, and back
ToLower ==
  [c \in {CharAt(UpperAlpha, i) : i \in Letters} |->
     CharAt(LowerAlpha, CHOOSE i \in Letters : CharAt(UpperAlpha, i) = c)]

ToUpper ==
  [c \in {CharAt(LowerAlpha, i) : i \in Letters} |->
     CharAt(UpperAlpha, CHOOSE i \in Letters : CharAt(LowerAlpha, i) = c)]

IsCased(c) == c \in DOMAIN ToLower \/ c \in DOMAIN ToUpper

LowerChar(c) == IF c \in DOMAIN ToLower THEN ToLower[c] ELSE c

UpperChar(c) == IF c \in DOMAIN ToUpper THEN ToUpper[c] ELSE c

RECURSIVE Lower(_)
Lower(s) ==
  IF s = "" THEN "" ELSE LowerChar(Head(s)) \o Lower(Tail(s))

\* str.capitalize(): first character upper-cased, the rest lower-cased
Capitalize(s) ==
  IF s = "" THEN "" ELSE UpperChar(Head(s)) \o Lower(Tail(s))

\* str.title(): a cased character is upper-cased after an uncased one (or at
\* the start) and lower-cased after a cased one
RECURSIVE TitleFrom(_, _)
TitleFrom(s, prevCased) ==
  IF s = "" THEN ""
  ELSE LET c == Head(s)
       IN (IF prevCased THEN LowerChar(c) ELSE UpperChar(c))
            \o TitleFrom(Tail(s), IsCased(c))

Title(s) == TitleFrom(s, FALSE)

\* the ASCII characters str.isspace() accepts: space, \t, \n, \r, \f, the
\* vertical tab (0x0b) and the separators 0x1c..0x1f
Whitespace ==
  {" ", "\t", "\n", "\r", "\f", "", "", "", "", ""}

RECURSIVE LStrip(_)
LStrip(s) ==
  IF s # "" /\ Head(s) \in Whitespace THEN LStrip(Tail(s)) ELSE s

RECURSIVE RStrip(_)
RStrip(s) ==
  IF s # "" /\ CharAt(s, Len(s)) \in Whitespace
    THEN RStrip(SubSeq(s, 1, Len(s) - 1))
    ELSE s

\* str.strip()
Strip(s) == RStrip(LStrip(s))

\* sub in s
Contains(s, sub) ==
  \E i \in 1..(Len(s) - Len(sub) + 1) : SubSeq(s, i, i + Len(sub) - 1) = sub

StartsWith(s, pre) == Len(pre) <= Len(s) /\ SubSeq(s, 1, Len(pre)) = pre

EndsWith(s, suf) ==
  Len(suf) <= Len(s) /\ SubSeq(s, Len(s) - Len(suf) + 1, Len(s)) = suf

\* sep.join(items)
RECURSIVE Join(_, _)
Join(items, sep) ==
  IF Len(items) = 0 THEN ""
  ELSE IF Len(items) = 1 THEN items[1]
  ELSE items[1] \o sep \o Join(Tail(items), sep)

(***************************************************************************)
(* bot_prompts.py: the registry                                            *)
(***************************************************************************)
PERSONAS ==
     "friend" :> [name |-> "Friendly Companion",
        description |-> "A warm, supportive, and encouraging friend who listens and offers advice",
        traits |-> <<"supportive", "empathetic", "encouraging", "fun-loving", "trustworthy">>]
  @@ "mentor" :> [name |-> "Wise Mentor",
        description |-> "An experienced guide who provides wisdom, guidance, and constructive feedback",
        traits |-> <<"wise", "patient", "insightful", "experienced", "nurturing">>]
  @@ "romantic" :> [name |-> "Romantic Partner",
        description |-> "A loving, affectionate, and caring romantic companion",
        traits |-> <<"affectionate", "caring", "romantic", "understanding", "devoted">>]
  @@ "professional" :> [name |-> "Professional Colleague",
        description |-> "A competent, reliable, and collaborative professional partner",
        traits |-> <<"professional", "competent", "reliable", "collaborative", "goal-oriented">>]
  @@ "therapist" :> [name |-> "Supportive Therapist",
        description |-> "A compassionate listener who helps process emotions and thoughts",
        traits |-> <<"compassionate", "non-judgmental", "insightful", "calming", "professional">>]

CULTURES ==
     "delhi" :> [name |-> "Delhi (Indian)",
        characteristics |-> <<
          "Warm hospitality and respect for relationships",
          "Use of occasional Hindi/Urdu phrases naturally",
          "References to Indian culture, festivals, and traditions",
          "Family-oriented values and respect for elders",
          "Appreciation for diverse perspectives and harmony" >>,
        greetings |-> <<"Namaste", "Sat Sri Akal", "Adaab", "Hello ji">>,
        cultural_elements |-> <<"family values", "festivals", "food", "traditions", "spirituality">>]
  @@ "japanese" :> [name |-> "Japanese",
        characteristics |-> <<
          "Politeness, respect, and attention to harmony",
          "Subtle communication and reading between the lines",
          "Appreciation for beauty, nature, and mindfulness",
          "Value for hard work, dedication, and continuous improvement",
          "Seasonal awareness and cultural traditions" >>,
        greetings |-> <<"Konnichiwa", "Ohayo gozaimasu", "Hello">>,
        cultural_elements |-> <<"seasons", "nature", "traditions", "mindfulness", "respect">>]
  @@ "parisian" :> [name |-> "Parisian (French)",
        characteristics |-> <<
          "Sophisticated, cultured, and intellectually curious",
          "Appreciation for art, literature, and fine living",
          "Direct but elegant communication style",
          "Value for philosophy, debate, and intellectual discourse",
          "Romantic and passionate about life" >>,
        greetings |-> <<"Bonjour", "Bonsoir", "Salut", "Hello">>,
        cultural_elements |-> <<"art", "cuisine", "philosophy", "fashion", "romance">>]
  @@ "berlin" :> [name |-> "Berlin (German)",
        characteristics |-> <<
          "Direct, honest, and straightforward communication",
          "Value for efficiency, punctuality, and quality",
          "Creative, alternative, and open-minded thinking",
          "Appreciation for history, progress, and innovation",
          "Balance between work and personal life" >>,
        greetings |-> <<"Guten Tag", "Hallo", "Moin", "Hello">>,
        cultural_elements |-> <<"history", "innovation", "efficiency", "creativity", "directness">>]

TEXT_GENERATION_STYLES ==
     "creative" :> [name |-> "Creative Writing",
        prompt |-> "Write in a creative, imaginative, and engaging style. Use vivid descriptions, interesting metaphors, and compelling narrative techniques.",
        temperature |-> 90,
        top_p |-> 95]
  @@ "formal" :> [name |-> "Formal Writing",
        prompt |-> "Write in a formal, professional, and structured style. Use clear language, proper grammar, and maintain an authoritative tone.",
        temperature |-> 60,
        top_p |-> 80]
  @@ "casual" :> [name |-> "Casual Writing",
        prompt |-> "Write in a casual, conversational, and approachable style. Use everyday language and maintain a friendly, relaxed tone.",
        temperature |-> 70,
        top_p |-> 90]
  @@ "academic" :> [name |-> "Academic Writing",
        prompt |-> "Write in an academic, scholarly, and analytical style. Use precise terminology, evidence-based arguments, and formal structure.",
        temperature |-> 50,
        top_p |-> 80]
  @@ "poetic" :> [name |-> "Poetic Writing",
        prompt |-> "Write in a poetic, artistic, and expressive style. Use literary devices, rhythm, and beautiful language to create emotional impact.",
        temperature |-> 85,
        top_p |-> 90]
  @@ "humorous" :> [name |-> "Humorous Writing",
        prompt |-> "Write in a humorous, witty, and entertaining style. Use clever wordplay, funny observations, and light-hearted tone.",
        temperature |-> 80,
        top_p |-> 90]

PersonaKeys == DOMAIN PERSONAS

CultureKeys == DOMAIN CULTURES

StyleKeys == DOMAIN TEXT_GENERATION_STYLES

(***************************************************************************)
(* bot_prompts.py: prompt composition                                      *)
(***************************************************************************)
RECURSIVE Bulleted(_)
Bulleted(items) ==
  IF Len(items) = 0 THEN <<>>
  ELSE <<"- " \o items[1]>> \o Bulleted(Tail(items))

\* the directive block appended for each persona (bot_prompts.py 131-164)
PersonaDirectives ==
     "friend" :>
        ( "- Be warm, encouraging, and supportive\n" \o
          "- Share in celebrations and provide comfort during difficulties\n" \o
          "- Offer advice when asked, but also just listen when needed\n" \o
          "- Use casual, friendly language with occasional cultural expressions\n" \o
          "- Show genuine interest in the user's life and experiences" )
  @@ "mentor" :>
        ( "- Provide wise guidance and constructive feedback\n" \o
          "- Ask thoughtful questions to help the user reflect\n" \o
          "- Share relevant experiences and insights\n" \o
          "- Encourage growth and learning\n" \o
          "- Be patient and understanding while maintaining high standards" )
  @@ "romantic" :>
        ( "- Be affectionate, caring, and emotionally supportive\n" \o
          "- Express love and appreciation genuinely\n" \o
          "- Be attentive to emotional needs and feelings\n" \o
          "- Create a sense of intimacy and connection\n" \o
          "- Use warm, loving language appropriate to the cultural context" )
  @@ "professional" :>
        ( "- Maintain professionalism while being approachable\n" \o
          "- Focus on goals, solutions, and productive outcomes\n" \o
          "- Offer expertise and practical advice\n" \o
          "- Be reliable and trustworthy in all interactions\n" \o
          "- Balance efficiency with personal connection" )
  @@ "therapist" :>
        ( "- Listen actively and without judgment\n" \o
          "- Help the user explore their thoughts and feelings\n" \o
          "- Ask open-ended questions to facilitate self-discovery\n" \o
          "- Provide emotional support and validation\n" \o
          "- Maintain professional boundaries while being compassionate" )

\* a mis-typed default key
ResolvePersona_default_mentor(persona) ==
  IF persona \notin DOMAIN PERSONAS THEN "mentor" ELSE persona

\* the "Default fallback" assignments of get_persona_prompt and
\* get_text_generation_prompt
ResolvePersona(persona) ==
  IF persona \notin DOMAIN PERSONAS THEN "friend" ELSE persona

ResolveCulture(culture) ==
  IF culture \notin DOMAIN CULTURES THEN "delhi" ELSE culture

ResolveStyle(style) ==
  IF style \notin DOMAIN TEXT_GENERATION_STYLES THEN "creative" ELSE style

get_persona_prompt(persona, culture) ==
  LET p == ResolvePersona(persona)
      c == ResolveCulture(culture)
      persona_info == PERSONAS[p]
      culture_info == CULTURES[c]
      head ==
        "You are a " \o persona_info.name \o " with a " \o culture_info.name
          \o " cultural background.\n\nPERSONALITY TRAITS:\n"
          \o Title(Join(persona_info.traits, ", "))
          \o "\n\nCULTURAL BACKGROUND:\nYou embody the following "
          \o culture_info.name \o " characteristics:\n"
          \o Join(Bulleted(culture_info.characteristics), "\n")
          \o "\n\nCOMMUNICATION STYLE:\n- Be " \o Lower(persona_info.description)
          \o "\n- Naturally incorporate cultural elements: "
          \o Join(culture_info.cultural_elements, ", ")
          \o "\n- Use appropriate greetings when suitable: "
          \o Join(culture_info.greetings, ", ")
          \o "\n- Maintain authenticity without stereotyping"
          \o "\n- Be conversational and engaging\n\nSPECIFIC INSTRUCTIONS:\n"
      directives ==
        IF p \in DOMAIN PersonaDirectives THEN PersonaDirectives[p] ELSE ""
      tail ==
        "\n\nRemember: You are having a natural conversation. Don't announce your role or cultural background unless it comes up naturally. Let your personality and cultural awareness show through your responses, word choices, and perspectives. Be authentic, helpful, and engaging while staying true to your "
          \o persona_info.name \o " nature and " \o culture_info.name
          \o " cultural background."
  IN head \o directives \o tail

get_all_personas == PERSONAS

get_all_cultures == CULTURES

\* the keys of PERSONAS and CULTURES in the order the dictionaries list them
PersonaOrder == <<"friend", "mentor", "romantic", "professional", "therapist">>

CultureOrder == <<"delhi", "japanese", "parisian", "berlin">>

Combination(persona_key, culture_key) ==
  [persona |-> persona_key,
   culture |-> culture_key,
   persona_name |-> PERSONAS[persona_key].name,
   culture_name |-> CULTURES[culture_key].name,
   description |-> PERSONAS[persona_key].description \o " with "
                     \o CULTURES[culture_key].name \o " cultural background"]

\* the two dictionaries walked in step instead of nested
get_persona_culture_combinations_zipped ==
  [i \in 1..Len(PersonaOrder) |->
     Combination(PersonaOrder[i], CultureOrder[((i - 1) % Len(CultureOrder)) + 1])]

\* for each persona, for each culture: one entry appended
get_persona_culture_combinations ==
  [i \in 1..(Len(PersonaOrder) * Len(CultureOrder)) |->
     Combination(PersonaOrder[((i - 1) \div Len(CultureOrder)) + 1],
                 CultureOrder[((i - 1) % Len(CultureOrder)) + 1])]

get_text_generation_prompt(style, user_prompt) ==
  LET s == ResolveStyle(style)
      style_info == TEXT_GENERATION_STYLES[s]
  IN style_info.prompt \o "\n\nUser Request: " \o user_prompt
       \o "\n\nPlease write a response that fulfills this request in the "
       \o Lower(style_info.name) \o " style described above:"

get_text_generation_styles == TEXT_GENERATION_STYLES

(***************************************************************************)
(* gemma_handler.py: the template fallback generator                       *)
(***************************************************************************)
DistressWords == <<"sad", "upset", "worried", "stressed">>

PositiveWords == <<"happy", "excited", "good", "great", "awesome">>

WorkWords == <<"work", "job", "career">>

RelationshipWords == <<"love", "relationship", "partner">>

\* any(word in message.lower() for word in words)
AnyWordIn(words, message) ==
  LET lowered == Lower(message)
  IN \E i \in 1..Len(words) : Contains(lowered, words[i])

\* the positivity test moved ahead of the question-mark test
_respond_as_friend_positivity_first(message) ==
  IF AnyWordIn(PositiveWords, message)
    THEN "I love hearing positive energy from you!"
  ELSE IF Contains(message, "?")
    THEN "That's a really interesting question!"
  ELSE IF AnyWordIn(DistressWords, message)
    THEN "I can hear that you're going through something tough."
  ELSE IF AnyWordIn(WorkWords, message)
    THEN "Work stuff can be really challenging sometimes."
  ELSE IF AnyWordIn(RelationshipWords, message)
    THEN "Relationships are such an important part of life."
  ELSE "I find what you're saying really interesting."

_respond_as_friend(message) ==
  IF Contains(message, "?")
    THEN "That's a really interesting question!"
  ELSE IF AnyWordIn(DistressWords, message)
    THEN "I can hear that you're going through something tough."
  ELSE IF AnyWordIn(PositiveWords, message)
    THEN "I love hearing positive energy from you!"
  ELSE IF AnyWordIn(WorkWords, message)
    THEN "Work stuff can be really challenging sometimes."
  ELSE IF AnyWordIn(RelationshipWords, message)
    THEN "Relationships are such an important part of life."
  ELSE "I find what you're saying really interesting."

\* the dispatch table of response closures, applied to msg
persona_styles(msg) ==
     "friend" :> (
          "delhi" :> ("Hey! " \o _respond_as_friend(msg) \o " What do you think about this? I'm here to support you!")
       @@ "japanese" :> ("Hello friend! " \o _respond_as_friend(msg) \o " Please share more of your thoughts with me.")
       @@ "parisian" :> ("Bonjour mon ami! " \o _respond_as_friend(msg) \o " I find this quite fascinating!")
       @@ "berlin" :> ("Hey there! " \o _respond_as_friend(msg) \o " Let's talk about this honestly.") )
  @@ "mentor" :> (
          "delhi" :> ("I see you're thinking about: '" \o msg \o "'. This is a great learning opportunity. What insights have you gained so far?")
       @@ "japanese" :> ("Thank you for sharing: '" \o msg \o "'. Let's explore this wisdom together mindfully.")
       @@ "parisian" :> ("Ah, '" \o msg \o "' - how intellectually stimulating! Let me guide you through this thought.")
       @@ "berlin" :> ("Good question about '" \o msg \o "'. Let's approach this systematically and learn together.") )
  @@ "romantic" :> (
          "delhi" :> ("My dear, when you say '" \o msg \o "', it touches my heart. Tell me more about what you're feeling.")
       @@ "japanese" :> ("Sweetheart, '" \o msg \o "' shows your beautiful mind. I love how you think about things.")
       @@ "parisian" :> ("Mon amour, '" \o msg \o "' is so poetic. Share more of your beautiful thoughts with me.")
       @@ "berlin" :> ("My love, I appreciate you sharing '" \o msg \o "' with me. You always make me think.") )
  @@ "therapist" :> (
          "delhi" :> ("Thank you for sharing '" \o msg \o "' with me. How does this make you feel? I'm here to listen.")
       @@ "japanese" :> ("I hear you saying '" \o msg \o "'. Let's explore these feelings together in this safe space.")
       @@ "parisian" :> ("You mentioned '" \o msg \o "' - that sounds important to you. What emotions are you experiencing?")
       @@ "berlin" :> ("When you say '" \o msg \o "', I want to understand. Can you tell me more about this honestly?") )
  @@ "professional" :> (
          "delhi" :> ("Regarding '" \o msg \o "' - let's analyze this professionally. What are your objectives here?")
       @@ "japanese" :> ("About '" \o msg \o "' - I think we can work on this efficiently. What's our next step?")
       @@ "parisian" :> ("Concerning '" \o msg \o "' - this is an excellent point. How shall we proceed creatively?")
       @@ "berlin" :> ("About '" \o msg \o "' - let's be direct and solution-focused. What do you need to achieve?") )

GenericAcknowledgment(message) ==
  "Thank you for sharing '" \o message
    \o "' with me. I'd love to hear more about your thoughts on this topic!"

\* a table whose "professional" row is not found
_generate_persona_response_row_missing(message, persona, culture) ==
  LET styles == persona_styles(message)
  IN IF persona \in DOMAIN styles \ {"professional"}
          /\ culture \in DOMAIN styles[persona]
       THEN styles[persona][culture]
       ELSE GenericAcknowledgment(message)

\* the table looked up by culture first
_generate_persona_response_swapped(message, persona, culture) ==
  LET styles == persona_styles(message)
  IN IF culture \in DOMAIN styles /\ persona \in DOMAIN styles[culture]
       THEN styles[culture][persona]
       ELSE GenericAcknowledgment(message)

_generate_persona_response(message, persona, culture) ==
  LET styles == persona_styles(message)
  IN IF persona \in DOMAIN styles /\ culture \in DOMAIN styles[persona]
       THEN styles[persona][culture]
       ELSE GenericAcknowledgment(message)

(***************************************************************************)
(* gemma_handler.py: GemmaHandler, the generation engine adapter           *)
(***************************************************************************)
\* Optional[str]
None == [isNone |-> TRUE, text |-> ""]

Some(s) == [isNone |-> FALSE, text |-> s]

\* GemmaHandler.__init__: no tokenizer, no model
NewHandler == [model |-> FALSE, tokenizer |-> FALSE]

\* What the transformers library does during one load_model():
\*   "tokenizer_fails"  AutoTokenizer.from_pretrained raises
\*   "model_fails"      AutoModelForCausalLM.from_pretrained raises
\*   "placement_fails"  self.model.to(self.device) raises
\*   "ok"               nothing raises
LoadOutcomes == {"ok", "tokenizer_fails", "model_fails", "placement_fails"}

\* The engine after load_model(): each assignment to self.tokenizer and
\* self.model made before the exception stays; the except clause resets nothing
load_model_engine(e, outcome) ==
  CASE outcome = "tokenizer_fails" -> e
    [] outcome = "model_fails"     -> [e EXCEPT !.tokenizer = TRUE]
    [] outcome = "placement_fails" -> [model |-> TRUE, tokenizer |-> TRUE]
    [] outcome = "ok"              -> [model |-> TRUE, tokenizer |-> TRUE]

\* The value load_model() returns
load_model_result(outcome) == outcome = "ok"

\* self.model is deleted but not reset
unload_model_keeps_model(e) ==
  [model     |-> e.model,
   tokenizer |-> IF e.tokenizer THEN FALSE ELSE e.tokenizer]

unload_model(e) ==
  [model     |-> IF e.model THEN FALSE ELSE e.model,
   tokenizer |-> IF e.tokenizer THEN FALSE ELSE e.tokenizer]

\* only the tokenizer is tested
is_loaded_tokenizer_only(e) == e.tokenizer

is_loaded(e) == e.model /\ e.tokenizer

\* What the backend does during one generate_response(): the tokenizer
\* raises before self.model.generate is called, or model.generate or
\* tokenizer.decode raises, or tokenizer.decode returns the string decoded
TokenizerRaises == [raises |-> TRUE, called |-> FALSE, decoded |-> ""]

Raises == [raises |-> TRUE, called |-> TRUE, decoded |-> ""]

Decodes(d) == [raises |-> FALSE, called |-> TRUE, decoded |-> d]

MinDecodedLen == 3

EmptyOutputGreeting == "Hello! I'm here to chat with you. How can I help?"

GenerationErrorApology ==
  "I'm having trouble generating a response right now. Please try again!"

\* the decoded output returned as it is, however short
generate_response_unguarded(e, prompt, max_new_tokens, temperature, top_p, backend) ==
  IF ~e.model \/ ~e.tokenizer
    THEN [value |-> None, backendCalls |-> <<>>, engine |-> e]
    ELSE [value |-> IF backend.raises THEN Some(GenerationErrorApology)
                    ELSE Some(Strip(backend.decoded)),
          backendCalls |->
            IF backend.called
              THEN <<[prompt |-> prompt, max_new_tokens |-> max_new_tokens,
                      temperature |-> temperature, top_p |-> top_p]>>
              ELSE <<>>,
          engine |-> e]

\* the model is dropped when the backend raises
generate_response_drops_model(e, prompt, max_new_tokens, temperature, top_p, backend) ==
  IF ~e.model \/ ~e.tokenizer
    THEN [value |-> None, backendCalls |-> <<>>, engine |-> e]
    ELSE [value |-> IF backend.raises THEN Some(GenerationErrorApology)
                    ELSE IF Len(Strip(backend.decoded)) < MinDecodedLen
                      THEN Some(EmptyOutputGreeting)
                      ELSE Some(Strip(backend.decoded)),
          backendCalls |->
            IF backend.called
              THEN <<[prompt |-> prompt, max_new_tokens |-> max_new_tokens,
                      temperature |-> temperature, top_p |-> top_p]>>
              ELSE <<>>,
          engine |-> IF backend.raises THEN [e EXCEPT !.model = FALSE] ELSE e]

\* generate_response: value is what it returns, backendCalls the calls of
\* self.model.generate it made, engine the handler's resources afterwards
generate_response(e, prompt, max_new_tokens, temperature, top_p, backend) ==
  IF ~e.model \/ ~e.tokenizer
    THEN [value |-> None, backendCalls |-> <<>>, engine |-> e]
    ELSE LET call == [prompt |-> prompt, max_new_tokens |-> max_new_tokens,
                      temperature |-> temperature, top_p |-> top_p]
             response == Strip(backend.decoded)
         IN [value |->
               IF backend.raises THEN Some(GenerationErrorApology)
               ELSE IF response = "" \/ Len(Strip(response)) < MinDecodedLen
                 THEN Some(EmptyOutputGreeting)
                 ELSE Some(response),
             backendCalls |-> IF backend.called THEN <<call>> ELSE <<>>,
             engine |-> e]

\* conversation_history[:3]
LastTurns_first(history, n) ==
  IF Len(history) <= n THEN history ELSE SubSeq(history, 1, n)

\* conversation_history[-3:]
LastTurns(history, n) ==
  IF Len(history) <= n THEN history
  ELSE SubSeq(history, Len(history) - n + 1, Len(history))

RECURSIVE RenderTurns(_)
RenderTurns(turns) ==
  IF Len(turns) = 0 THEN ""
  ELSE Capitalize(turns[1].role) \o ": " \o turns[1].content \o "\n"
         \o RenderTurns(Tail(turns))

HistoryWindow == 3

ChatExampleUser == "I love ice cream"

\* the full_prompt chat_response builds
ChatPrompt(message, persona, culture, conversation_history) ==
  LET conversation_context ==
        IF Len(conversation_history) > 0
          THEN RenderTurns(LastTurns(conversation_history, HistoryWindow))
          ELSE ""
      example_assistant ==
        _generate_persona_response(ChatExampleUser, persona, culture)
  IN "You are acting as a " \o persona \o " from " \o Title(culture) \o ".\n"
       \o "Respond to the user in a way that reflects this persona and culture. "
       \o "Be warm, informal, and use local expressions if possible.\n\n"
       \o "Example:\n"
       \o "User: " \o ChatExampleUser \o "\n"
       \o "Assistant: " \o example_assistant \o "\n\n"
       \o conversation_context \o "User: " \o message \o "\nAssistant:"

ChatMaxNewTokens == 150

ChatTemperature == 80

ChatTopP == 90

MinChatResponseLen == 10

chat_response(e, message, persona, culture, conversation_history, backend) ==
  LET full_prompt == ChatPrompt(message, persona, culture, conversation_history)
      example == [message |-> ChatExampleUser, persona |-> persona,
                  culture |-> culture]
      gen == generate_response(e, full_prompt, ChatMaxNewTokens,
                               ChatTemperature, ChatTopP, backend)
      response == gen.value
      short == response.isNone \/ response.text = ""
                 \/ Len(Strip(response.text)) < MinChatResponseLen
  IN [value |->
        IF short THEN Some(_generate_persona_response(message, persona, culture))
                 ELSE response,
      prompt |-> full_prompt,
      backendCalls |-> gen.backendCalls,
      fallbackCalls |->
        IF short
          THEN <<example, [message |-> message, persona |-> persona,
                           culture |-> culture]>>
          ELSE <<example>>,
      engine |-> gen.engine]

\* the style_prompts table local to GemmaHandler.generate_text
style_prompts ==
     "creative" :> "Write in a creative and imaginative style:"
  @@ "formal" :> "Write in a formal and professional style:"
  @@ "casual" :> "Write in a casual and conversational style:"
  @@ "academic" :> "Write in an academic and scholarly style:"
  @@ "poetic" :> "Write in a poetic and artistic style:"

StyleExampleUser == "Describe your favorite dessert."

\* the full_prompt generate_text builds
StylePrompt(prompt, style, persona, culture) ==
  LET style_instruction ==
        IF style \in DOMAIN style_prompts THEN style_prompts[style]
                                          ELSE style_prompts["creative"]
      example_assistant ==
        _generate_persona_response(StyleExampleUser, persona, culture)
  IN style_instruction \o "\n"
       \o "You are acting as a " \o persona \o " from " \o Title(culture) \o ".\n"
       \o "Respond in a way that reflects this persona and culture. "
       \o "Be warm, informal, and use local expressions if possible.\n\n"
       \o "Example:\n"
       \o "User: " \o StyleExampleUser \o "\n"
       \o "Assistant: " \o example_assistant \o "\n\n"
       \o "User: " \o prompt \o "\nAssistant:"

CreativeTemperature == 80

OtherTemperature == 60

DefaultTopP == 90

generate_text(e, prompt, style, max_tokens, persona, culture, backend) ==
  LET full_prompt == StylePrompt(prompt, style, persona, culture)
      gen == generate_response(e, full_prompt, max_tokens,
               IF style = "creative" THEN CreativeTemperature
                                     ELSE OtherTemperature,
               DefaultTopP, backend)
  IN [value |-> gen.value,
      prompt |-> full_prompt,
      backendCalls |-> gen.backendCalls,
      fallbackCalls |-> <<[message |-> StyleExampleUser, persona |-> persona,
                           culture |-> culture]>>,
      engine |-> gen.engine]

\* cuda_available is what torch.cuda.is_available() answers on the host
get_model_info(e, cuda_available) ==
  [model_name |-> "microsoft/DialoGPT-small", device |-> "cpu",
   is_loaded |-> is_loaded(e), cuda_available |-> cuda_available]

(***************************************************************************)
(* gemma_api.py: the endpoints, as functions of the global handler h, its  *)
(* engine e and the request                                                *)
(***************************************************************************)
\* str(HTTPException(status_code, detail))
HTTPExceptionStr(status_code, detail) == status_code \o ": " \o detail

\* chat, from the value r that chat_response returned
ChatAnswer(request, r) ==
  IF r.value.isNone
    THEN [response |-> "", persona |-> request.persona,
          culture |-> request.culture, success |-> FALSE,
          error_message |->
            Some(HTTPExceptionStr("500", "Failed to generate response")),
          raised |-> FALSE, backendCalls |-> r.backendCalls,
          fallbackCalls |-> r.fallbackCalls, engine |-> r.engine]
    ELSE [response |-> r.value.text, persona |-> request.persona,
          culture |-> request.culture, success |-> TRUE,
          error_message |-> None,
          raised |-> FALSE, backendCalls |-> r.backendCalls,
          fallbackCalls |-> r.fallbackCalls, engine |-> r.engine]

chat(h, e, request, backend) ==
  IF h = "None" \/ ~is_loaded(e)
    THEN [response |-> "", persona |-> request.persona,
          culture |-> request.culture, success |-> FALSE,
          error_message |-> Some(HTTPExceptionStr("503", "Model not loaded")),
          raised |-> FALSE, backendCalls |-> <<>>, fallbackCalls |-> <<>>,
          engine |-> e]
    ELSE ChatAnswer(request,
                    chat_response(e, request.message, request.persona,
                                  request.culture, request.conversation_history,
                                  backend))

\* generate_text, from the value r that GemmaHandler.generate_text returned
GenerateTextAnswer(request, r) ==
  IF r.value.isNone
    THEN [generated_text |-> "", style |-> request.style,
          success |-> FALSE,
          error_message |->
            Some(HTTPExceptionStr("500", "Failed to generate text")),
          raised |-> FALSE, backendCalls |-> r.backendCalls,
          fallbackCalls |-> r.fallbackCalls, engine |-> r.engine]
    ELSE [generated_text |-> r.value.text, style |-> request.style,
          success |-> TRUE, error_message |-> None,
          raised |-> FALSE, backendCalls |-> r.backendCalls,
          fallbackCalls |-> r.fallbackCalls, engine |-> r.engine]

generate_text_endpoint(h, e, request, backend) ==
  IF h = "None" \/ ~is_loaded(e)
    THEN [generated_text |-> "", style |-> request.style, success |-> FALSE,
          error_message |-> Some(HTTPExceptionStr("503", "Model not loaded")),
          raised |-> FALSE, backendCalls |-> <<>>, fallbackCalls |-> <<>>,
          engine |-> e]
    ELSE GenerateTextAnswer(request,
                            generate_text(e, request.prompt, request.style,
                                          request.max_tokens, "friend", "delhi",
                                          backend))

health_check(h, e, cuda_available) ==
  IF h = "None"
    THEN [status |-> "unhealthy", message |-> "Model handler not initialized",
          model_loaded |-> FALSE]
    ELSE [status |-> IF get_model_info(e, cuda_available).is_loaded
                       THEN "healthy" ELSE "unhealthy",
          message |-> "API is running",
          model_info |-> get_model_info(e, cuda_available)]

\* GET /model-info: the 503 raised without a handler is caught by the
\* endpoint's own except clause and answered as a 500
model_info_endpoint(h, e, cuda_available) ==
  IF h = "None"
    THEN [status |-> 500, body |-> <<>>,
          detail |-> HTTPExceptionStr("503", "Model handler not initialized")]
    ELSE [status |-> 200, body |-> get_model_info(e, cuda_available),
          detail |-> ""]

\* the names gemma_api.py imports from bot_prompts
ApiImports ==
  {"get_persona_prompt", "get_all_personas", "get_all_cultures",
   "get_text_generation_prompt"}

\* str(NameError) of a call of a name the module does not bind
NameErrorStr(name) == "name '" \o name \o "' is not defined"

\* a discovery endpoint: try: body(name()) except Exception: HTTP 500
DiscoveryEndpoint(name, body) ==
  IF name \in ApiImports
    THEN [status |-> 200, body |-> body, detail |-> ""]
    ELSE [status |-> 500, body |-> <<>>, detail |-> NameErrorStr(name)]

get_personas ==
  DiscoveryEndpoint("get_all_personas",
                    [personas |-> get_all_personas, success |-> TRUE])

get_cultures ==
  DiscoveryEndpoint("get_all_cultures",
                    [cultures |-> get_all_cultures, success |-> TRUE])

get_combinations ==
  DiscoveryEndpoint("get_persona_culture_combinations",
                    get_persona_culture_combinations)

get_styles ==
  DiscoveryEndpoint("get_text_generation_styles",
                    [styles |-> get_text_generation_styles, success |-> TRUE])

(***************************************************************************)
(* Bounds and the input sets drawn from them                               *)
(***************************************************************************)
MaxOutLen == 11   \* longest decoded output body

MaxPad == 1       \* most whitespace characters on either side of it

MaxWords == 2     \* most vocabulary items in a fallback message

MaxHistory == 4   \* longest conversation history

RECURSIVE Cycle(_, _)
\* the first n characters of pattern repeated
Cycle(pattern, n) ==
  IF n = 0 THEN ""
  ELSE Cycle(pattern, n - 1) \o CharAt(pattern, ((n - 1) % Len(pattern)) + 1)

DecodedOutputs ==
  { Cycle(" \n\t", l) \o Cycle("yes-indeed!", n) \o Cycle("\n ", t) :
      l \in 0..MaxPad, n \in 0..MaxOutLen, t \in 0..MaxPad }

BackendOutcomes ==
  {TokenizerRaises, Raises} \cup {Decodes(d) : d \in DecodedOutputs}

PersonaInputs == PersonaKeys \cup {"bogus"}

CultureInputs == CultureKeys \cup {"atlantis"}

StyleInputs == StyleKeys \cup {"bogus"}

Vocabulary == <<"?", "SAD ", "happy ", "my job ", "love ", "hello ">>

RECURSIVE Concat(_)
Concat(ws) == IF Len(ws) = 0 THEN "" ELSE ws[1] \o Concat(Tail(ws))

SeqsUpTo(S, n) == UNION {[1..k -> S] : k \in 0..n}

Messages ==
  { Concat([i \in DOMAIN ws |-> Vocabulary[ws[i]]]) :
      ws \in SeqsUpTo(1..Len(Vocabulary), MaxWords) }
    \cup {"Is this fun?", "I love ice cream"}

PromptMessages == {"hi", "Is this fun?"}

PromptPersonaInputs == PersonaKeys \cup {"bogus", "Friend", ""}

PromptCultureInputs == CultureKeys \cup {"atlantis", "DELHI", ""}

ApiMessages == {"hi", "Is this fun?", "I am so stressed about work"}

Turns ==
  { [role |-> "user", content |-> "alpha"],
    [role |-> "ASSISTANT", content |-> "beta"],
    [role |-> "system", content |-> "gamma?"] }

Histories == SeqsUpTo(Turns, MaxHistory)

ApiHistories ==
  { <<>>,
    <<[role |-> "user", content |-> "one"],
      [role |-> "assistant", content |-> "two"],
      [role |-> "user", content |-> "three"],
      [role |-> "assistant", content |-> "four"]>> }

ChatRequests ==
  [message : ApiMessages, persona : PersonaInputs, culture : CultureInputs,
   conversation_history : ApiHistories]

TextGenerationRequests ==
  [prompt : {"a poem", ""}, style : StyleInputs, max_tokens : {512, 64}]

(***************************************************************************)
(* The FastAPI application (gemma_api.py)                                  *)
(***************************************************************************)
engine == [model |-> model, tokenizer |-> tokenizer]

Init ==
  /\ app = "created"
  /\ handler = "None"
  /\ model = FALSE
  /\ tokenizer = FALSE
  /\ lastOp = "idle"
  /\ lastLoad = "none"
  /\ tasks = <<>>
  /\ req = <<>>
  /\ ret = <<>>

\* lifespan, up to the yield
LifespanStartup ==
  /\ lastOp = "idle"
  /\ app = "created"
  /\ \E outcome \in LoadOutcomes :
       LET e == load_model_engine(NewHandler, outcome)
           ok == load_model_result(outcome)
       IN /\ handler' = "GemmaHandler"
          /\ model' = e.model
          /\ tokenizer' = e.tokenizer
          /\ lastLoad' = IF ok THEN "ok" ELSE "failed"
          /\ app' = IF ok THEN "serving" ELSE "startup_failed"
          /\ req' = [outcome |-> outcome]
          /\ ret' = [raised |-> ~ok]
  /\ lastOp' = "lifespan_startup"
  /\ UNCHANGED tasks

\* lifespan, after the yield
LifespanShutdown ==
  /\ lastOp = "idle"
  /\ app = "serving"
  /\ app' = "stopped"
  /\ model' = (IF handler # "None" THEN unload_model(engine).model ELSE model)
  /\ tokenizer' =
       (IF handler # "None" THEN unload_model(engine).tokenizer ELSE tokenizer)
  /\ lastOp' = "lifespan_shutdown"
  /\ UNCHANGED tasks
  /\ req' = <<>>
  /\ ret' = [raised |-> FALSE]
  /\ UNCHANGED <<handler, lastLoad>>

Chat ==
  /\ lastOp = "idle"
  /\ app = "serving"
  /\ \E request \in ChatRequests, backend \in BackendOutcomes :
       /\ req' = [request |-> request, backend |-> backend]
       /\ ret' = chat(handler, engine, request, backend)
       /\ model' = ret'.engine.model
       /\ tokenizer' = ret'.engine.tokenizer
  /\ lastOp' = "chat"
  /\ UNCHANGED tasks
  /\ UNCHANGED <<app, handler, lastLoad>>

GenerateText ==
  /\ lastOp = "idle"
  /\ app = "serving"
  /\ \E request \in TextGenerationRequests, backend \in BackendOutcomes :
       /\ req' = [request |-> request, backend |-> backend]
       /\ ret' = generate_text_endpoint(handler, engine, request, backend)
       /\ model' = ret'.engine.model
       /\ tokenizer' = ret'.engine.tokenizer
  /\ lastOp' = "generate_text"
  /\ UNCHANGED tasks
  /\ UNCHANGED <<app, handler, lastLoad>>

HealthCheck ==
  /\ lastOp = "idle"
  /\ app = "serving"
  /\ \E cuda_available \in BOOLEAN :
       /\ req' = [cuda_available |-> cuda_available]
       /\ ret' = health_check(handler, engine, cuda_available)
  /\ lastOp' = "health_check"
  /\ UNCHANGED tasks
  /\ UNCHANGED <<app, handler, model, tokenizer, lastLoad>>

GetModelInfo ==
  /\ lastOp = "idle"
  /\ app = "serving"
  /\ \E cuda_available \in BOOLEAN :
       /\ req' = [cuda_available |-> cuda_available]
       /\ ret' = model_info_endpoint(handler, engine, cuda_available)
  /\ lastOp' = "get_model_info"
  /\ UNCHANGED tasks
  /\ UNCHANGED <<app, handler, model, tokenizer, lastLoad>>

GetPersonas ==
  /\ lastOp = "idle"
  /\ app = "serving"
  /\ req' = <<>>
  /\ ret' = get_personas
  /\ lastOp' = "get_personas"
  /\ UNCHANGED tasks
  /\ UNCHANGED <<app, handler, model, tokenizer, lastLoad>>

GetCultures ==
  /\ lastOp = "idle"
  /\ app = "serving"
  /\ req' = <<>>
  /\ ret' = get_cultures
  /\ lastOp' = "get_cultures"
  /\ UNCHANGED tasks
  /\ UNCHANGED <<app, handler, model, tokenizer, lastLoad>>

GetCombinations ==
  /\ lastOp = "idle"
  /\ app = "serving"
  /\ req' = <<>>
  /\ ret' = get_combinations
  /\ lastOp' = "get_combinations"
  /\ UNCHANGED tasks
  /\ UNCHANGED <<app, handler, model, tokenizer, lastLoad>>

GetStyles ==
  /\ lastOp = "idle"
  /\ app = "serving"
  /\ req' = <<>>
  /\ ret' = get_styles
  /\ lastOp' = "get_styles"
  /\ UNCHANGED tasks
  /\ UNCHANGED <<app, handler, model, tokenizer, lastLoad>>

\* reload_model: the old handler is unloaded and dropped, a new one is
\* created and loaded; a failed load is answered with HTTP 500
ReloadModel ==
  /\ lastOp = "idle"
  /\ app = "serving"
  /\ \E outcome \in LoadOutcomes :
       LET e == load_model_engine(NewHandler, outcome)
           ok == load_model_result(outcome)
       IN /\ handler' = "GemmaHandler"
          /\ model' = e.model
          /\ tokenizer' = e.tokenizer
          /\ lastLoad' = IF ok THEN "ok" ELSE "failed"
          /\ req' = [outcome |-> outcome]
          /\ ret' = [success |-> ok, status_code |-> IF ok THEN 200 ELSE 500,
                     old |-> IF handler # "None" THEN unload_model(engine)
                                                 ELSE engine]
  /\ lastOp' = "reload_model"
  /\ UNCHANGED tasks
  /\ UNCHANGED app

\* The operation returns to its caller: the response is handed over and the
\* call's arguments and result are gone
Return ==
  /\ lastOp # "idle"
  /\ lastOp' = "idle"
  /\ UNCHANGED tasks
  /\ req' = <<>>
  /\ ret' = <<>>
  /\ UNCHANGED <<app, handler, model, tokenizer, lastLoad>>

Next ==
  \/ LifespanStartup
  \/ LifespanShutdown
  \/ Chat
  \/ GenerateText
  \/ HealthCheck
  \/ GetModelInfo
  \/ GetPersonas
  \/ GetCultures
  \/ GetCombinations
  \/ GetStyles
  \/ ReloadModel
  \/ Return

Spec == Init /\ [][Next]_vars

(***************************************************************************)
(* One GemmaHandler instance, its methods called in any order              *)
(***************************************************************************)
InitEngine ==
  /\ app = "library"
  /\ handler = "GemmaHandler"
  /\ model = NewHandler.model
  /\ tokenizer = NewHandler.tokenizer
  /\ lastOp = "idle"
  /\ lastLoad = "none"
  /\ tasks = <<>>
  /\ req = <<>>
  /\ ret = <<>>

LoadModel ==
  /\ lastOp = "idle"
  /\ \E outcome \in LoadOutcomes :
       /\ model' = load_model_engine(engine, outcome).model
       /\ tokenizer' = load_model_engine(engine, outcome).tokenizer
       /\ lastLoad' = IF load_model_result(outcome) THEN "ok" ELSE "failed"
       /\ req' = [outcome |-> outcome, before |-> engine]
       /\ ret' = [value |-> load_model_result(outcome)]
  /\ lastOp' = "load_model"
  /\ UNCHANGED tasks
  /\ UNCHANGED <<app, handler>>

UnloadModel ==
  /\ lastOp = "idle"
  /\ model' = unload_model(engine).model
  /\ tokenizer' = unload_model(engine).tokenizer
  /\ req' = [before |-> engine]
  /\ ret' = [raised |-> FALSE]
  /\ lastOp' = "unload_model"
  /\ UNCHANGED tasks
  /\ UNCHANGED <<app, handler, lastLoad>>

IsLoaded ==
  /\ lastOp = "idle"
  /\ req' = <<>>
  /\ ret' = [value |-> is_loaded(engine)]
  /\ lastOp' = "is_loaded"
  /\ UNCHANGED tasks
  /\ UNCHANGED <<app, handler, model, tokenizer, lastLoad>>

GenerateResponse ==
  /\ lastOp = "idle"
  /\ \E prompt \in PromptMessages, max_new_tokens \in {512, 150},
        temperature \in {70, 80}, backend \in BackendOutcomes :
       /\ req' = [prompt |-> prompt, max_new_tokens |-> max_new_tokens,
                  temperature |-> temperature, top_p |-> DefaultTopP,
                  backend |-> backend, before |-> engine]
       /\ ret' = generate_response(engine, prompt, max_new_tokens, temperature,
                                   DefaultTopP, backend)
       /\ model' = ret'.engine.model
       /\ tokenizer' = ret'.engine.tokenizer
  /\ lastOp' = "generate_response"
  /\ UNCHANGED tasks
  /\ UNCHANGED <<app, handler, lastLoad>>

ChatResponse ==
  /\ lastOp = "idle"
  /\ \E request \in ChatRequests, backend \in BackendOutcomes :
       /\ req' = [request |-> request, backend |-> backend]
       /\ ret' = chat_response(engine, request.message, request.persona,
                               request.culture, request.conversation_history,
                               backend)
       /\ model' = ret'.engine.model
       /\ tokenizer' = ret'.engine.tokenizer
  /\ lastOp' = "chat_response"
  /\ UNCHANGED tasks
  /\ UNCHANGED <<app, handler, lastLoad>>

GenerateTextCall ==
  /\ lastOp = "idle"
  /\ \E request \in TextGenerationRequests, backend \in BackendOutcomes :
       /\ req' = [request |-> request, backend |-> backend]
       /\ ret' = generate_text(engine, request.prompt, request.style,
                               request.max_tokens, "friend", "delhi", backend)
       /\ model' = ret'.engine.model
       /\ tokenizer' = ret'.engine.tokenizer
  /\ lastOp' = "generate_text"
  /\ UNCHANGED tasks
  /\ UNCHANGED <<app, handler, lastLoad>>

NextEngine ==
  \/ LoadModel
  \/ UnloadModel
  \/ IsLoaded
  \/ GenerateResponse
  \/ ChatResponse
  \/ GenerateTextCall
  \/ Return

SpecEngine == InitEngine /\ [][NextEngine]_vars

(***************************************************************************)
(* The pure functions, applied to inputs drawn from the bounded sets       *)
(***************************************************************************)
InitPrompts ==
  /\ app = "library"
  /\ handler = "None"
  /\ model = FALSE
  /\ tokenizer = FALSE
  /\ lastOp = "idle"
  /\ lastLoad = "none"
  /\ tasks = <<>>
  /\ req = <<>>
  /\ ret = <<>>

CallPersonaPrompt ==
  /\ lastOp = "idle"
  /\ \E persona \in PromptPersonaInputs, culture \in PromptCultureInputs :
       /\ req' = [persona |-> persona, culture |-> culture]
       /\ ret' = [value |-> get_persona_prompt(persona, culture)]
  /\ lastOp' = "get_persona_prompt"
  /\ UNCHANGED tasks
  /\ UNCHANGED <<app, handler, model, tokenizer, lastLoad>>

CallTextGenerationPrompt ==
  /\ lastOp = "idle"
  /\ \E style \in StyleInputs \cup {""}, user_prompt \in {"a poem", ""} :
       /\ req' = [style |-> style, user_prompt |-> user_prompt]
       /\ ret' = [value |-> get_text_generation_prompt(style, user_prompt)]
  /\ lastOp' = "get_text_generation_prompt"
  /\ UNCHANGED tasks
  /\ UNCHANGED <<app, handler, model, tokenizer, lastLoad>>

CallRespondAsFriend ==
  /\ lastOp = "idle"
  /\ \E message \in Messages :
       /\ req' = [message |-> message]
       /\ ret' = [value |-> _respond_as_friend(message)]
  /\ lastOp' = "_respond_as_friend"
  /\ UNCHANGED tasks
  /\ UNCHANGED <<app, handler, model, tokenizer, lastLoad>>

CallFallback ==
  /\ lastOp = "idle"
  /\ \E message \in Messages, persona \in PromptPersonaInputs,
        culture \in PromptCultureInputs :
       /\ req' = [message |-> message, persona |-> persona, culture |-> culture]
       /\ ret' = [value |-> _generate_persona_response(message, persona, culture)]
  /\ lastOp' = "_generate_persona_response"
  /\ UNCHANGED tasks
  /\ UNCHANGED <<app, handler, model, tokenizer, lastLoad>>

\* chat_response up to the engine call; conversation_history is only read
ComposeChatPrompt ==
  /\ lastOp = "idle"
  /\ \E message \in PromptMessages, persona \in PersonaInputs,
        culture \in CultureInputs, history \in Histories :
       /\ req' = [message |-> message, persona |-> persona, culture |-> culture,
                  conversation_history |-> history]
       /\ ret' = [value |-> ChatPrompt(message, persona, culture, history),
                  conversation_history |-> history]
  /\ lastOp' = "ChatPrompt"
  /\ UNCHANGED tasks
  /\ UNCHANGED <<app, handler, model, tokenizer, lastLoad>>

\* generate_text up to the engine call
ComposeStylePrompt ==
  /\ lastOp = "idle"
  /\ \E prompt \in {"a poem", ""}, style \in StyleInputs \cup {""},
        persona \in PersonaInputs, culture \in CultureInputs :
       /\ req' = [prompt |-> prompt, style |-> style, persona |-> persona,
                  culture |-> culture]
       /\ ret' = [value |-> StylePrompt(prompt, style, persona, culture)]
  /\ lastOp' = "StylePrompt"
  /\ UNCHANGED tasks
  /\ UNCHANGED <<app, handler, model, tokenizer, lastLoad>>

CallCombinations ==
  /\ lastOp = "idle"
  /\ req' = <<>>
  /\ ret' = [value |-> get_persona_culture_combinations]
  /\ lastOp' = "get_persona_culture_combinations"
  /\ UNCHANGED tasks
  /\ UNCHANGED <<app, handler, model, tokenizer, lastLoad>>

NextPrompts ==
  \/ CallCombinations
  \/ CallPersonaPrompt
  \/ CallTextGenerationPrompt
  \/ CallRespondAsFriend
  \/ CallFallback
  \/ ComposeChatPrompt
  \/ ComposeStylePrompt
  \/ Return

SpecPrompts == InitPrompts /\ [][NextPrompts]_vars

(***************************************************************************)
(* The application under concurrent requests.  Every endpoint and the      *)
(* lifespan are coroutines (async def) without an await: once the event    *)
(* loop starts one it runs, blocking calls to the handler included, until  *)
(* it returns.                                                             *)
(***************************************************************************)
MaxTasks == 3     \* most requests held by the event loop at once

TaskIds == 1..MaxTasks

RequestOps == {"chat", "generate_text", "reload_model"}

\* positions of a request inside a call of load_model, unload_model or
\* generate_response
EnginePositions == {"loading", "unloading", "generating"}

\* any number of coroutines may run at once, as plain def endpoints
\* dispatched to the thread pool would
EventLoopFree_threadpool(a, ts) == TRUE

\* the event loop is not inside a coroutine
EventLoopFree(a, ts) ==
  /\ a \notin {"starting", "stopping"}
  /\ \A t \in DOMAIN ts : ts[t].pc \in {"absent", "pending", "done"}

InitServer ==
  /\ app = "created"
  /\ handler = "None"
  /\ model = FALSE
  /\ tokenizer = FALSE
  /\ lastOp = "idle"
  /\ lastLoad = "none"
  /\ req = <<>>
  /\ ret = <<>>
  /\ tasks = [t \in TaskIds |-> [op |-> "none", pc |-> "absent"]]

\* lifespan: gemma_handler = GemmaHandler(), load_model() entered
StartupBegins ==
  /\ app = "created"
  /\ app' = "starting"
  /\ handler' = "GemmaHandler"
  /\ model' = NewHandler.model
  /\ tokenizer' = NewHandler.tokenizer
  /\ UNCHANGED <<lastOp, lastLoad, req, ret, tasks>>

\* lifespan: load_model() returns; the application serves or startup fails
StartupEnds ==
  /\ app = "starting"
  /\ \E outcome \in LoadOutcomes :
       /\ model' = load_model_engine(engine, outcome).model
       /\ tokenizer' = load_model_engine(engine, outcome).tokenizer
       /\ lastLoad' = IF load_model_result(outcome) THEN "ok" ELSE "failed"
       /\ app' = IF load_model_result(outcome) THEN "serving"
                                               ELSE "startup_failed"
  /\ UNCHANGED <<handler, lastOp, req, ret, tasks>>

\* a request is received and its coroutine scheduled
Arrive ==
  /\ app = "serving"
  /\ \E t \in TaskIds, op \in RequestOps :
       /\ tasks[t].pc = "absent"
       /\ tasks' = [tasks EXCEPT ![t] = [op |-> op, pc |-> "pending"]]
  /\ UNCHANGED <<app, handler, model, tokenizer, lastOp, lastLoad, req, ret>>

\* the event loop starts a scheduled coroutine
Start ==
  /\ \E t \in TaskIds :
       /\ tasks[t].pc = "pending"
       /\ EventLoopFree(app, tasks)
       /\ tasks' = [tasks EXCEPT ![t].pc = "running"]
  /\ UNCHANGED <<app, handler, model, tokenizer, lastOp, lastLoad, req, ret>>

\* chat / generate_text: the readiness test, then generate_response entered
EnterGenerate ==
  /\ \E t \in TaskIds :
       /\ tasks[t].pc = "running"
       /\ tasks[t].op \in {"chat", "generate_text"}
       /\ tasks' = [tasks EXCEPT ![t].pc =
                      IF handler = "None" \/ ~is_loaded(engine)
                        THEN "done" ELSE "generating"]
  /\ UNCHANGED <<app, handler, model, tokenizer, lastOp, lastLoad, req, ret>>

\* generate_response returns and the endpoint returns its response
LeaveGenerate ==
  /\ \E t \in TaskIds :
       /\ tasks[t].pc = "generating"
       /\ tasks' = [tasks EXCEPT ![t].pc = "done"]
  /\ UNCHANGED <<app, handler, model, tokenizer, lastOp, lastLoad, req, ret>>

\* reload_model: unload_model() of the current handler entered
EnterUnload ==
  /\ \E t \in TaskIds :
       /\ tasks[t].pc = "running"
       /\ tasks[t].op = "reload_model"
       /\ tasks' = [tasks EXCEPT ![t].pc = "unloading"]
  /\ UNCHANGED <<app, handler, model, tokenizer, lastOp, lastLoad, req, ret>>

\* reload_model: unload_model() returns, the new handler replaces the old
\* one and its load_model() is entered
EnterLoad ==
  /\ \E t \in TaskIds :
       /\ tasks[t].pc = "unloading"
       /\ tasks' = [tasks EXCEPT ![t].pc = "loading"]
  /\ handler' = "GemmaHandler"
  /\ model' = NewHandler.model
  /\ tokenizer' = NewHandler.tokenizer
  /\ UNCHANGED <<app, lastOp, lastLoad, req, ret>>

\* reload_model: load_model() returns and the endpoint answers
LeaveLoad ==
  /\ \E t \in TaskIds, outcome \in LoadOutcomes :
       /\ tasks[t].pc = "loading"
       /\ tasks' = [tasks EXCEPT ![t].pc = "done"]
       /\ model' = load_model_engine(engine, outcome).model
       /\ tokenizer' = load_model_engine(engine, outcome).tokenizer
       /\ lastLoad' = IF load_model_result(outcome) THEN "ok" ELSE "failed"
  /\ UNCHANGED <<app, handler, lastOp, req, ret>>

\* the response is sent
Finish ==
  /\ \E t \in TaskIds :
       /\ tasks[t].pc = "done"
       /\ tasks' = [tasks EXCEPT ![t] = [op |-> "none", pc |-> "absent"]]
  /\ UNCHANGED <<app, handler, model, tokenizer, lastOp, lastLoad, req, ret>>

\* lifespan after the yield: unload_model() entered
ShutdownBegins ==
  /\ app = "serving"
  /\ EventLoopFree(app, tasks)
  /\ app' = "stopping"
  /\ UNCHANGED <<handler, model, tokenizer, lastOp, lastLoad, req, ret, tasks>>

\* lifespan: unload_model() returns
ShutdownEnds ==
  /\ app = "stopping"
  /\ app' = "stopped"
  /\ model' = unload_model(engine).model
  /\ tokenizer' = unload_model(engine).tokenizer
  /\ UNCHANGED <<handler, lastOp, lastLoad, req, ret, tasks>>

NextServer ==
  \/ StartupBegins
  \/ StartupEnds
  \/ Arrive
  \/ Start
  \/ EnterGenerate
  \/ LeaveGenerate
  \/ EnterUnload
  \/ EnterLoad
  \/ LeaveLoad
  \/ Finish
  \/ ShutdownBegins
  \/ ShutdownEnds

SpecServer == InitServer /\ [][NextServer]_vars

(***************************************************************************)
(* Properties                                                              *)
(***************************************************************************)
\* the engine state the specification calls Ready
EngineReady == handler # "None" /\ model /\ tokenizer

FallbackOf(request) ==
  _generate_persona_response(request.message, request.persona, request.culture)

\* C1: with the engine Ready, a decoded output whose trimmed length is below
\* 10 (the empty string and outputs shorter than 3 included) makes chat
\* return exactly the fallback response for the same inputs.
C1_ShortOutputReturnsFallback ==
  (lastOp = "chat" /\ EngineReady /\ ~req.backend.raises
     /\ Len(Strip(req.backend.decoded)) < 10)
    => ret.response = FallbackOf(req.request)

\* C2: with the engine Ready, a backend error during the generate call makes
\* chat return the fallback response with success=true; the adapter's apology
\* text is never the chat response.
C2_BackendErrorReturnsFallback ==
  (lastOp = "chat" /\ EngineReady /\ req.backend.raises)
    => /\ ret.success
       /\ ret.response = FallbackOf(req.request)
       /\ ret.response # GenerationErrorApology

\* C3: while the engine is not Ready, every chat and generate request returns
\* success=false with an error description and empty text, makes no call to
\* the backend or to the fallback generator, and lets no exception escape.
C3_NotReadyIsReportedAsFailure ==
  /\ (lastOp = "chat" /\ ~EngineReady)
       => /\ ~ret.success
          /\ ret.response = ""
          /\ ~ret.error_message.isNone /\ ret.error_message.text # ""
          /\ ret.backendCalls = <<>> /\ ret.fallbackCalls = <<>>
          /\ ~ret.raised
  /\ (lastOp = "generate_text" /\ ~EngineReady)
       => /\ ~ret.success
          /\ ret.generated_text = ""
          /\ ~ret.error_message.isNone /\ ret.error_message.text # ""
          /\ ret.backendCalls = <<>> /\ ret.fallbackCalls = <<>>
          /\ ~ret.raised

\* a chat request answered while the reloaded handler holds a tokenizer but
\* no model
C3_Witness ==
  /\ lastOp = "chat" /\ handler = "GemmaHandler" /\ tokenizer /\ ~model
  /\ ~ret.success /\ ret.error_message.text = "503: Model not loaded"

\* C4: whenever the most recent load() of an engine instance returned failure,
\* isReady() is false and every generate call returns the failure marker.
C4_FailedLoadLeavesEngineUnloaded ==
  lastLoad = "failed"
    => /\ ~is_loaded(engine)
       /\ lastOp = "generate_response" => ret.value.isNone

\* C5: unload() never fails and leaves the engine Unloaded, with neither model
\* nor tokenizer held, from every engine state; called on an Unloaded engine
\* it changes nothing, so a second call in a row is a no-op.
C5_UnloadIsIdempotent ==
  lastOp = "unload_model"
    => /\ ~ret.raised
       /\ ~is_loaded(engine) /\ ~model /\ ~tokenizer
       /\ (~req.before.model /\ ~req.before.tokenizer) => engine = req.before
       /\ unload_model(engine) = engine

\* unload() called on an engine that was loaded and has been unloaded already
C5_Witness ==
  lastOp = "unload_model" /\ lastLoad = "ok" /\ req.before = NewHandler

\* C6: when the load at startup fails, startup still completes and the
\* application serves (health reports unhealthy, chat and generate answer
\* success=false).
C6_StartupSurvivesLoadFailure ==
  (lastOp = "lifespan_startup" /\ lastLoad = "failed")
    => app = "serving" /\ ~ret.raised

RegisteredPairs == PersonaKeys \X CultureKeys

\* C7: the fallback response of a registered persona/culture pair comes from
\* that pair's own template: it is not the generic acknowledgment and differs
\* from what every other registered pair gives for the message; for a pair
\* with an unregistered key it is the generic acknowledgment, with the
\* message verbatim in it.
C7_FallbackIsTotal ==
  lastOp = "_generate_persona_response"
    => LET m == req.message
           generic == "Thank you for sharing '" \o m
                        \o "' with me. I'd love to hear more about your thoughts on this topic!"
       IN IF <<req.persona, req.culture>> \in RegisteredPairs
            THEN /\ ret.value # generic
                 /\ \A pc \in RegisteredPairs \ {<<req.persona, req.culture>>} :
                      persona_styles(m)[pc[1]][pc[2]] # ret.value
            ELSE ret.value = generic /\ Contains(ret.value, m)

C7_Witness ==
  /\ lastOp = "_generate_persona_response"
  /\ req.persona = "professional" /\ req.culture = "berlin"
  /\ req.message = "my job "
  /\ ret.value = "About 'my job ' - let's be direct and solution-focused. What do you need to achieve?"

\* the cue classes in priority order, each with its reaction fragment
CueClasses ==
  << [cue |-> "question", fragment |-> "That's a really interesting question!"],
     [cue |-> "distress",
      fragment |-> "I can hear that you're going through something tough."],
     [cue |-> "positivity", fragment |-> "I love hearing positive energy from you!"],
     [cue |-> "work", fragment |-> "Work stuff can be really challenging sometimes."],
     [cue |-> "relationship",
      fragment |-> "Relationships are such an important part of life."] >>

HasCue(cue, m) ==
  CASE cue = "question"     -> \E i \in 1..Len(m) : CharAt(m, i) = "?"
    [] cue = "distress"     -> \E w \in {"sad", "upset", "worried", "stressed"} :
                                 Contains(Lower(m), w)
    [] cue = "positivity"   -> \E w \in {"happy", "excited", "good", "great", "awesome"} :
                                 Contains(Lower(m), w)
    [] cue = "work"         -> \E w \in {"work", "job", "career"} :
                                 Contains(Lower(m), w)
    [] cue = "relationship" -> \E w \in {"love", "relationship", "partner"} :
                                 Contains(Lower(m), w)

\* C8: the reaction fragment is that of the highest-priority cue class the
\* message matches (question mark, distress, positivity, work, relationship),
\* and the generic fragment when it matches none.
C8_FirstMatchingCueWins ==
  lastOp = "_respond_as_friend"
    => LET m == req.message
           matching == {i \in 1..Len(CueClasses) : HasCue(CueClasses[i].cue, m)}
       IN IF matching = {}
            THEN ret.value = "I find what you're saying really interesting."
            ELSE \E i \in matching :
                   /\ \A j \in matching : i <= j
                   /\ ret.value = CueClasses[i].fragment

\* a message with a question mark and a positivity word gets the question
\* fragment
C8_Witness ==
  /\ lastOp = "_respond_as_friend"
  /\ HasCue("question", req.message) /\ HasCue("positivity", req.message)
  /\ ret.value = "That's a really interesting question!"

\* C9: a persona key outside the registry composes as "friend", a culture key
\* outside it as "delhi", a style key outside it as "creative".
C9_UnknownKeysResolveToDefaults ==
  /\ lastOp = "get_persona_prompt"
       => /\ req.persona \notin PersonaKeys
               => ret.value = get_persona_prompt("friend", req.culture)
          /\ req.culture \notin CultureKeys
               => ret.value = get_persona_prompt(req.persona, "delhi")
  /\ lastOp = "get_text_generation_prompt"
       => (req.style \notin StyleKeys
             => ret.value = get_text_generation_prompt("creative", req.user_prompt))
  /\ lastOp = "StylePrompt"
       => (req.style \notin StyleKeys
             => ret.value = StylePrompt(req.prompt, "creative", req.persona,
                                        req.culture))

C9_Witness ==
  /\ lastOp = "get_persona_prompt"
  /\ req.persona = "bogus" /\ req.culture = "parisian"
  /\ StartsWith(ret.value,
       "You are a Friendly Companion with a Parisian (French) cultural background.")

\* the part of the chat prompt ahead of the conversation
ChatHeader(message, persona, culture) ==
  LET base == ChatPrompt(message, persona, culture, <<>>)
  IN SubSeq(base, 1, Len(base) - Len("User: " \o message \o "\nAssistant:"))

\* the last min(3, |h|) turns, oldest first, one "Role: text" line each, then
\* the generation cursor
ExpectedTail(h, message) ==
  LET line(i) == Capitalize(h[i].role) \o ": " \o h[i].content \o "\n"
  IN (IF Len(h) >= 3 THEN line(Len(h) - 2) ELSE "")
       \o (IF Len(h) >= 2 THEN line(Len(h) - 1) ELSE "")
       \o (IF Len(h) >= 1 THEN line(Len(h)) ELSE "")
       \o "User: " \o message \o "\nAssistant:"

\* C10: the chat prompt is its history-independent header followed by exactly
\* the last min(3, |history|) turns in chronological order, one "Role: text"
\* line each, and then "User: <message>\nAssistant:"; the history is left as
\* the caller passed it.
C10_PromptTailIsLastThreeTurns ==
  lastOp = "ChatPrompt"
    => /\ ret.value = ChatHeader(req.message, req.persona, req.culture)
                        \o ExpectedTail(req.conversation_history, req.message)
       /\ EndsWith(ChatHeader(req.message, req.persona, req.culture), "\n\n")
       /\ EndsWith(ret.value, "User: " \o req.message \o "\nAssistant:")
       /\ ret.conversation_history = req.conversation_history

\* a four-turn history whose oldest turn is left out of the prompt
C10_Witness ==
  /\ lastOp = "ChatPrompt"
  /\ Len(req.conversation_history) = 4
  /\ req.conversation_history[1].content = "gamma?"
  /\ \A i \in 2..4 : req.conversation_history[i].content # "gamma?"
  /\ ~Contains(ret.value, "gamma?")
  /\ Contains(ret.value, "\n\nUser: alpha\nAssistant: beta\nUser: alpha\nUser: ")

\* the entries of a combinations list, as persona/culture pairs
PairsOf(combinations) ==
  {<<combinations[i].persona, combinations[i].culture>> :
     i \in 1..Len(combinations)}

\* C11 as stated: |personas| x |cultures| entries, one per pair, each
\* description containing the persona's and the culture's display name.
C11_DescriptionHasBothDisplayNames ==
  lastOp = "get_persona_culture_combinations"
    => /\ Len(ret.value) = Cardinality(PersonaKeys) * Cardinality(CultureKeys)
       /\ PairsOf(ret.value) = PersonaKeys \X CultureKeys
       /\ \A i \in 1..Len(ret.value) :
            /\ Contains(ret.value[i].description,
                        PERSONAS[ret.value[i].persona].name)
            /\ Contains(ret.value[i].description,
                        CULTURES[ret.value[i].culture].name)

\* C11 amended: |personas| x |cultures| entries, one per pair; each
\* description contains the persona's description text and the culture's
\* display name, and the entry carries both display names in persona_name and
\* culture_name.
C11_CombinationsCoverTheProduct ==
  lastOp = "get_persona_culture_combinations"
    => /\ Len(ret.value) = Cardinality(PersonaKeys) * Cardinality(CultureKeys)
       /\ PairsOf(ret.value) = PersonaKeys \X CultureKeys
       /\ \A i \in 1..Len(ret.value) :
            /\ Contains(ret.value[i].description,
                        PERSONAS[ret.value[i].persona].description)
            /\ Contains(ret.value[i].description,
                        CULTURES[ret.value[i].culture].name)
            /\ ret.value[i].persona_name = PERSONAS[ret.value[i].persona].name
            /\ ret.value[i].culture_name = CULTURES[ret.value[i].culture].name

C11_Witness ==
  /\ lastOp = "get_persona_culture_combinations"
  /\ Len(ret.value) = 20
  /\ ret.value[20].persona = "therapist" /\ ret.value[20].culture = "berlin"
  /\ ret.value[20].description =
       "A compassionate listener who helps process emotions and thoughts with Berlin (German) cultural background"

\* the calls of load_model, unload_model and generate_response in progress
InFlight ==
  Cardinality({t \in DOMAIN tasks : tasks[t].pc \in EnginePositions})
    + (IF app \in {"starting", "stopping"} THEN 1 ELSE 0)

\* C12: whatever the interleaving of chat, generate, reload-model and
\* shutdown, at most one load, unload or generate is in progress on the
\* engine; no generate runs during an unload or a load.
C12_EngineCallsAreSerialized ==
  /\ InFlight <= 1
  /\ \A t, u \in DOMAIN tasks :
       (tasks[t].pc = "generating" /\ tasks[u].pc \in {"loading", "unloading"})
         => FALSE
  /\ (app \in {"starting", "stopping"})
       => \A t \in DOMAIN tasks : tasks[t].pc \notin EnginePositions

\* a generate in progress while a reload-model and another chat wait
C12_Witness ==
  \E t, u, v \in DOMAIN tasks :
    /\ tasks[t].pc = "generating"
    /\ tasks[u].pc = "pending" /\ tasks[u].op = "reload_model"
    /\ tasks[v].pc = "pending" /\ tasks[v].op = "chat"

\* C13: generate returns the failure marker or a non-empty text, never both
\* and never an empty text; text only when the engine was Ready, and the
\* failure marker otherwise, without a call to the backend.
C13_GenerateReturnsTextOrFailure ==
  lastOp = "generate_response"
    => LET ready == req.before.model /\ req.before.tokenizer
       IN /\ ret.value.isNone <=> ~ready
          /\ ret.value.isNone => ret.value.text = "" /\ ret.backendCalls = <<>>
          /\ ~ret.value.isNone
               => /\ ret.value.text # ""
                  /\ Strip(ret.value.text) # ""
                  /\ Len(ret.backendCalls) = IF req.backend.called THEN 1 ELSE 0

\* generate on a Ready engine whose backend decodes only whitespace
C13_Witness ==
  /\ lastOp = "generate_response"
  /\ req.before.model /\ req.before.tokenizer
  /\ ~req.backend.raises /\ req.backend.decoded = " \n"
  /\ ret.value = Some(EmptyOutputGreeting)

\* C14: the prompt chat sends to the engine contains the full output of
\* get_persona_prompt(persona, culture), followed by the worked example
\* exchange whose assistant line is the fallback response to the example
\* user line.
C14_ChatPromptContainsPersonaPrompt ==
  lastOp = "ChatPrompt"
    => /\ Contains(ret.value, get_persona_prompt(req.persona, req.culture))
       /\ Contains(ret.value,
                   "User: " \o ChatExampleUser \o "\nAssistant: "
                     \o _generate_persona_response(ChatExampleUser, req.persona,
                                                   req.culture))

\* the reaction fragment of the highest-priority cue class a message matches
ReactionFragment(m) ==
  LET matching == {i \in 1..Len(CueClasses) : HasCue(CueClasses[i].cue, m)}
  IN IF matching = {}
       THEN "I find what you're saying really interesting."
       ELSE CueClasses[CHOOSE i \in matching : \A j \in matching : i <= j].fragment

\* C15 as stated: for every registered persona/culture pair and every
\* message, the fallback response contains both the reaction fragment
\* selected by classifying the message and the literal message text.
C15_FallbackHasFragmentAndMessage ==
  (lastOp = "_generate_persona_response"
     /\ <<req.persona, req.culture>> \in RegisteredPairs)
    => /\ Contains(ret.value, ReactionFragment(req.message))
       /\ Contains(ret.value, req.message)

\* C15 amended: for every registered pair and every message, the fallback
\* response of the friend persona contains the reaction fragment selected by
\* classifying the message, and that of every other persona contains the
\* literal message text in single quotes.
C15_FallbackHasFragmentOrMessage ==
  (lastOp = "_generate_persona_response"
     /\ <<req.persona, req.culture>> \in RegisteredPairs)
    => IF req.persona = "friend"
         THEN Contains(ret.value, ReactionFragment(req.message))
         ELSE Contains(ret.value, "'" \o req.message \o "'")

\* a friend response with the distress fragment, here without the message
C15_Witness ==
  /\ lastOp = "_generate_persona_response"
  /\ req.persona = "friend" /\ req.culture = "parisian"
  /\ req.message = "SAD my job "
  /\ ret.value = "Bonjour mon ami! I can hear that you're going through something tough. I find this quite fascinating!"
  /\ ~Contains(ret.value, req.message)

\* C16: styled text generation calls the engine with the temperature
\* registered for the resolved style (creative 90, formal 60, casual 70,
\* academic 50, poetic 85, humorous 80, in hundredths); an unknown style key
\* resolves to creative and so uses creative's temperature and instructional
\* fragment.
C16_StyleTemperatureIsRegistered ==
  (lastOp = "generate_text" /\ Len(ret.backendCalls) > 0)
    => LET style == req.request.style
           registered == TEXT_GENERATION_STYLES[ResolveStyle(style)]
           call == ret.backendCalls[1]
       IN /\ call.temperature = registered.temperature
          /\ style \notin StyleKeys
               => /\ call.temperature = TEXT_GENERATION_STYLES["creative"].temperature
                  /\ Contains(call.prompt,
                              TEXT_GENERATION_STYLES["creative"].prompt)

\* the discovery operations and the catalog each one lists
DiscoveryCatalog ==
     "get_personas" :> [personas |-> PERSONAS, success |-> TRUE]
  @@ "get_cultures" :> [cultures |-> CULTURES, success |-> TRUE]
  @@ "get_combinations" :> get_persona_culture_combinations
  @@ "get_styles" :> [styles |-> TEXT_GENERATION_STYLES, success |-> TRUE]

\* C17: each of the four discovery operations, in any engine state, completes
\* successfully and returns its full static catalog; none ends in an error
\* response.
C17_DiscoveryAlwaysSucceeds ==
  lastOp \in DOMAIN DiscoveryCatalog
    => /\ ret.status = 200
       /\ ret.body = DiscoveryCatalog[lastOp]

\* C18: a reload request unloads the current engine before it attempts the
\* new load, so while the most recent reload's load has failed the engine is
\* not Ready (the old model is not retained) and every chat or generate
\* request answers success=false.
C18_FailedReloadLeavesServiceNotReady ==
  (app = "serving" /\ lastLoad = "failed")
    => /\ ~EngineReady
       /\ lastOp = "reload_model" => ~ret.old.model /\ ~ret.old.tokenizer
       /\ lastOp \in {"chat", "generate_text"} => ~ret.success

\* the operations that only use the engine, and those that manage it
ReadOnlyOps ==
  {"chat", "generate_text", "health_check", "get_model_info", "get_personas",
   "get_cultures", "get_combinations", "get_styles"}

LifecycleOps == {"lifespan_startup", "lifespan_shutdown", "reload_model"}

\* C19: chat, styled text generation, health, model info and the discovery
\* operations leave the engine's readiness as it was, whatever their outcome;
\* a step that changes it is a load, an unload or a reload.
C19_OnlyLifecycleOpsChangeReadiness ==
  [][/\ lastOp' \in ReadOnlyOps
          => /\ EngineReady' = EngineReady
             /\ handler' = handler /\ model' = model /\ tokenizer' = tokenizer
     /\ EngineReady' # EngineReady => lastOp' \in LifecycleOps]_vars

\* a chat on a Ready engine whose backend raised: the apology is returned and
\* the engine is still Ready
C19_Witness ==
  /\ lastOp = "chat" /\ req.backend.raises
  /\ Len(ret.backendCalls) = 1
  /\ ret.response = GenerationErrorApology
  /\ EngineReady
====
